---------------------------- MODULE Spec2Model ----------------------------
(***************************************************************************)
(* PyLiquid2EVM: the session registry (active Service -> proxy mapping and  *)
(* the session wallet list), the request handlers of liquid/internals.py   *)
(* and the Wallet / Pool objects of liquid/operations.py.                   *)
(*                                                                          *)
(* Python values are encoded uniformly so that any two of them can be      *)
(* compared: a str is the sequence of its characters, a dict is the set of *)
(* its <<key, value>> items, None is a proxy numbered 0.                   *)
(***************************************************************************)
EXTENDS Integers, Sequences, FiniteSets, TLC

VARIABLES
    app,              \* "init" before the startup event has run, then "serving"
    active_service,   \* registry dict Service -> proxy, in insertion order
    session_wallets,  \* registry list of Wallet objects, most recent last
    services,         \* every Service object constructed so far (index = identity)
    wallets,          \* every Wallet object whose construction has completed
    node_log,         \* the RPC calls the node has received, in order
    req,              \* per request: the position and locals of get_wallet
    response,         \* outcome of the last handler / constructor that returned
    registered,       \* history: Services handed to update_active_service, in order
    ctor,             \* the last Wallet construction: its arguments and its result
    pools,            \* every Pool object constructed so far
    last_op           \* the last Wallet / Pool operation: its arguments and its result

vars == <<app, active_service, session_wallets, services, wallets, node_log,
          req, response, registered, ctor, pools, last_op>>

----------------------------------------------------------------------------
(* Bounds of the model *)

NReq == 2
MaxServices == 3
MaxWallets == 2
MaxLog == 2
MaxSession == 3
MaxBuilt == 1

Req == 1..NReq

----------------------------------------------------------------------------
(* Python values *)

\* None, where a proxy is expected (a function that falls off its end)
None == 0

\* a str is the sequence of its characters
StrA == <<"a">>
StrB == <<"b">>
StrC == <<"c">>
StrAB == <<"a", "b">>
EmptyStr == <<>>

\* the metadata a Wallet holds: no attribute at all, a dict, or a str
Unset == [t |-> "unset", d |-> {}, s |-> EmptyStr]
Dict(items) == [t |-> "dict", d |-> items, s |-> EmptyStr]
Str(chars) == [t |-> "str", d |-> {}, s |-> chars]
EmptyDict == Dict({})

\* a Wallet object: its _proxy and its _wallet attribute
WalletObj(p, m) == [proxy |-> p, wallet |-> m]

\* an outcome: returned normally ("ok") or the exception raised
\* arg is the str the handler was given, msg tells two raises of one exception
\* class apart
NoResponse ==
    [op |-> "none", arg |-> EmptyStr, status |-> "none", msg |-> "none",
     value |-> Unset]
Outcome(op, arg, status, msg, value) ==
    [op |-> op, arg |-> arg, status |-> status, msg |-> msg, value |-> value]

----------------------------------------------------------------------------
(* The registry accessors imported from main and the Service class          *)

\* get_active_service(): the Service -> proxy dict
get_active_service == active_service

\* get_session_wallets(): the list of session wallets
get_session_wallets == session_wallets

\* update_active_service({service: proxy}): one atomic dict update; a new key
\* goes last in the dict's order
update_active_service(reg, service, proxy) ==
    Append(reg, [service |-> service, proxy |-> proxy])

\* Service.get_proxy(): the one Connection the Service owns
get_proxy(service) == service

\* Service(...): a new Service object; constructing it registers nothing
NewService(origin) == Append(services, [origin |-> origin])

----------------------------------------------------------------------------
(* _check_for_proxy, internals.py 20-36 *)

\* line 30: truthiness of the dict
Truthy_gt1(_temp) == Len(_temp) > 1
Truthy(_temp) == Len(_temp) > 0

\* line 31: list(_temp.values())[-1]
LatestProxy_first(_temp) == _temp[1].proxy
LatestProxy(_temp) == _temp[Len(_temp)].proxy

IdleReq ==
    [pc |-> "idle", depth |-> 0, service |-> 0, proxy |-> None, inner |-> None,
     made |-> 0, svc0 |-> 0, reg0 |-> 0, quiet0 |-> FALSE]

Active(r) == req[r].pc \notin {"idle", "done"}

\* a registration is pending: a call has seen the empty registry and has not
\* yet put its Service in
Pending(r) == req[r].pc \in {"construct", "register"}


----------------------------------------------------------------------------
(* Python argument values and the RPC call executor, operations.py 66-88 *)

PyStr(chars) == [t |-> "str", v |-> chars]
PyBool(b) == [t |-> "bool", v |-> <<IF b THEN "True" ELSE "False">>]
PyNone == [t |-> "none", v |-> <<>>]
PyFloat(digits) == [t |-> "float", v |-> <<digits>>]

\* `not x` for an Optional[str]: None and "" are falsy
Falsy(x) == x.t = "none" \/ (x.t = "str" /\ x.v = <<>>)

\* *x: only a str can be unpacked, into its characters
Iterable(x) == x.t = "str"
Unpack(x) == [i \in 1..Len(x.v) |-> PyStr(<<x.v[i]>>)]

\* rpc_exec: the decorator hands the call's arguments on as they came
rpc_exec(args) == args

\* lines 84-88: what reaches _inst_func, or the TypeError of unpacking
wrapper_executor(verb, args) ==
    LET a == rpc_exec(args) IN
    IF a # <<>>
    THEN IF Iterable(a[1])
         THEN [raise |-> "none", verb |-> verb, args |-> Unpack(a[1])]
         ELSE [raise |-> "TypeError", verb |-> verb, args |-> <<>>]
    ELSE [raise |-> "none", verb |-> verb, args |-> <<>>]

\* the node: what a verb answers when it accepts the call
Addresses == {<<"x", "1">>}
NodeReply(verb, args, addr) ==
    CASE verb \in {"createwallet", "loadwallet"} ->
            Dict({<<"name", IF args = <<>> THEN EmptyStr ELSE args[1].v>>,
                  <<"warning", EmptyStr>>})
      [] verb = "getnewaddress" -> Str(addr)
      [] OTHER -> Dict({<<"verb", <<verb>>>>})

\* the node: the JSON-RPC error a verb answers when it rejects the call
NoError == [code |-> 0, message |-> "none"]
NodeError(verb) ==
    CASE verb \in {"createwallet", "issueasset"} ->
            [code |-> -4, message |-> "wallet error"]
      [] verb = "loadwallet" -> [code |-> -18, message |-> "wallet not found"]
      [] verb = "sendtoaddress" -> [code |-> -6, message |-> "insufficient funds"]
      [] OTHER -> [code |-> -1, message |-> "misc error"]

\* one entry of the node's log
LogEntry(call, ok, addr) ==
    [verb |-> call.verb, args |-> call.args, ok |-> ok,
     reply |-> IF ok THEN NodeReply(call.verb, call.args, addr) ELSE Unset,
     error |-> IF ok THEN NoError ELSE NodeError(call.verb)]

\* the result of running a piece of Wallet code: how it ended, the value it
\* returned and the RPC calls it made
Ran(status, value, calls) == [status |-> status, value |-> value, calls |-> calls]

\* one executor invocation against proxy p; ok is the node's verdict on it
Exec_swallow(p, verb, args, ok, addr) ==
    IF p = None
    THEN Ran("AttributeError", Unset, <<>>)
    ELSE LET call == wrapper_executor(verb, args) IN
         IF call.raise # "none"
         THEN Ran(call.raise, Unset, <<>>)
         ELSE LET e == LogEntry(call, ok, addr) IN
              IF ok THEN Ran("ok", e.reply, <<e>>)
                    ELSE Ran("ok", Unset, <<e>>)
Exec(p, verb, args, ok, addr) ==
    IF p = None
    THEN Ran("AttributeError", Unset, <<>>)
    ELSE LET call == wrapper_executor(verb, args) IN
         IF call.raise # "none"
         THEN Ran(call.raise, Unset, <<>>)
         ELSE LET e == LogEntry(call, ok, addr) IN
              IF ok THEN Ran("ok", e.reply, <<e>>)
                    ELSE Ran("RPCError", Unset, <<e>>)

----------------------------------------------------------------------------
(* Wallet, operations.py 12-237 *)

\* generated labels: str(uuid4())
UUIDs == {<<"u", "1">>, <<"u", "2">>}

\* _create_wallet, lines 90-115
create_wallet_keep_creation(p, address, label, uuid, ok1, ok2, addr) ==
    LET label1 == IF Falsy(label) THEN PyStr(uuid) ELSE label
        creation == Exec(p, "createwallet",
                         <<label1, PyBool(FALSE), PyBool(FALSE)>>, ok1, addr)
    IN  IF creation.status # "ok" THEN creation
        ELSE IF address
             THEN LET output == Exec(p, "getnewaddress", <<>>, ok2, addr) IN
                  Ran(output.status, creation.value,
                      creation.calls \o output.calls)
             ELSE creation
create_wallet(p, address, label, uuid, ok1, ok2, addr) ==
    LET label1 == IF Falsy(label) THEN PyStr(uuid) ELSE label
        creation == Exec(p, "createwallet",
                         <<label1, PyBool(FALSE), PyBool(FALSE)>>, ok1, addr)
    IN  IF creation.status # "ok" THEN creation
        ELSE IF address
             THEN LET output == Exec(p, "getnewaddress", <<>>, ok2, addr) IN
                  Ran(output.status, output.value,
                      creation.calls \o output.calls)
             ELSE creation

\* list_wallets, lines 137-146
list_wallets(p, ok, addr) == Exec(p, "listwalletdir", <<>>, ok, addr)

\* load_wallet, lines 148-162
load_wallet(p, name, ok, addr) == Exec(p, "loadwallet", <<name>>, ok, addr)

\* the mode strings of __init__
ModeC == "c"
ModeR == "r"
ModeL == "l"

\* Wallet.__init__, lines 27-50: value is the resulting object; after a raise
\* the object has its _proxy and whatever _wallet it got before
Wallet_init_fallback(p, mode, wallet_label, with_address, uuid, ok1, ok2, addr) ==
    IF mode = ModeC
    THEN LET c == create_wallet(p, with_address, wallet_label, uuid, ok1, ok2, addr)
         IN  Ran(c.status, WalletObj(p, c.value), c.calls)
    ELSE IF mode = ModeL
    THEN LET l == load_wallet(p, wallet_label, ok1, addr)
         IN  Ran(l.status, WalletObj(p, l.value), l.calls)
    ELSE Ran("ok", WalletObj(p, EmptyDict), <<>>)
Wallet_init(p, mode, wallet_label, with_address, uuid, ok1, ok2, addr) ==
    IF mode = ModeC
    THEN LET c == create_wallet(p, with_address, wallet_label, uuid, ok1, ok2, addr)
         IN  Ran(c.status, WalletObj(p, c.value), c.calls)
    ELSE IF mode = ModeR
    THEN Ran("ok", WalletObj(p, EmptyDict), <<>>)
    ELSE IF mode = ModeL
    THEN LET l == load_wallet(p, wallet_label, ok1, addr)
         IN  Ran(l.status, WalletObj(p, l.value), l.calls)
    ELSE Ran("NotImplementedError", WalletObj(p, Unset), <<>>)

\* what a construction was asked and what came of it
NoCtor ==
    [mode |-> "none", label |-> PyNone, with_address |-> FALSE, status |-> "none",
     obj |-> WalletObj(None, Unset), calls |-> <<>>]
Ctor(mode, wallet_label, with_address, w) ==
    [mode |-> mode, label |-> wallet_label, with_address |-> with_address,
     status |-> w.status, obj |-> w.value, calls |-> w.calls]

----------------------------------------------------------------------------
(* The operations of a constructed Wallet and of a Pool, operations.py 137-290 *)

\* get_balance, lines 164-173
get_balance(p, ok, addr) == Exec(p, "getbalance", <<>>, ok, addr)

\* get_address, lines 175-184
get_address(p, ok, addr) == Exec(p, "getaddress", <<>>, ok, addr)

\* get_private_key, lines 186-195
get_private_key(p, ok, addr) == Exec(p, "dumpprivkey", <<>>, ok, addr)

\* get_public_key, lines 197-206
get_public_key(p, ok, addr) == Exec(p, "getpubkey", <<>>, ok, addr)

\* get_wallet_info, lines 208-217
get_wallet_info(p, ok, addr) == Exec(p, "getwalletinfo", <<>>, ok, addr)

\* send_to_address, lines 219-237
send_to_address(p, address, amount, ok, addr) ==
    Exec(p, "sendtoaddress", <<address, amount>>, ok, addr)

\* Pool.__init__, lines 252-263: the Pool refers to its owning Wallet object
Pool_init(input_wallet) == [vault_wallet |-> input_wallet]

\* Pool.issue_token, lines 272-290, on the proxy p of the owning wallet
issue_token(p, amount, reissue, ok, addr) ==
    Exec(p, "issueasset", <<amount, reissue>>, ok, addr)

\* the operations by name; a is the caller's argument list
WalletOperations ==
    {"list_wallets", "load_wallet", "get_balance", "get_address",
     "get_private_key", "get_public_key", "get_wallet_info", "send_to_address"}
Invoke(name, p, a, ok, addr) ==
    CASE name = "list_wallets" -> list_wallets(p, ok, addr)
      [] name = "load_wallet" -> load_wallet(p, a[1], ok, addr)
      [] name = "get_balance" -> get_balance(p, ok, addr)
      [] name = "get_address" -> get_address(p, ok, addr)
      [] name = "get_private_key" -> get_private_key(p, ok, addr)
      [] name = "get_public_key" -> get_public_key(p, ok, addr)
      [] name = "get_wallet_info" -> get_wallet_info(p, ok, addr)
      [] name = "send_to_address" -> send_to_address(p, a[1], a[2], ok, addr)
      [] name = "issue_token" -> issue_token(p, a[1], a[2], ok, addr)

\* the bound method each operation names and the arguments it writes after it
\* in its call of _wrapper_executor
VerbOf(name) ==
    CASE name = "list_wallets" -> "listwalletdir"
      [] name = "load_wallet" -> "loadwallet"
      [] name = "get_balance" -> "getbalance"
      [] name = "get_address" -> "getaddress"
      [] name = "get_private_key" -> "dumpprivkey"
      [] name = "get_public_key" -> "getpubkey"
      [] name = "get_wallet_info" -> "getwalletinfo"
      [] name = "send_to_address" -> "sendtoaddress"
      [] name = "issue_token" -> "issueasset"
Supplied(name, a) ==
    IF name \in {"load_wallet", "send_to_address", "issue_token"} THEN a ELSE <<>>

\* the Wallet object after one of its methods has run: no method of lines
\* 137-237 assigns an attribute, the node's answer goes to the caller only
after_operation_store(name, w, r) ==
    IF name = "load_wallet" /\ r.status = "ok" THEN WalletObj(w.proxy, r.value) ELSE w
after_operation(name, w, r) == w

\* the exception a failed executor call raises: rpc_exec hands on the node's
\* error, code and message as they came
rpc_error(calls) == calls[Len(calls)].error
Raised(r) == IF r.status = "RPCError" THEN rpc_error(r.calls) ELSE NoError

\* what a Wallet / Pool operation was asked and what came of it; before and
\* after are the objects and the registry as they stood around it
NoShot == [wallets |-> <<>>, pools |-> <<>>, active_service |-> <<>>,
           session_wallets |-> <<>>]
Shot == [wallets |-> wallets, pools |-> pools, active_service |-> active_service,
         session_wallets |-> session_wallets]
NoOp ==
    [name |-> "none", proxy |-> None, given |-> <<>>, status |-> "none",
     value |-> Unset, raised |-> NoError, calls |-> <<>>,
     before |-> NoShot, after |-> NoShot]
Op(name, p, a, r, before, after) ==
    [name |-> name, proxy |-> p, given |-> a, status |-> r.status,
     value |-> r.value, raised |-> Raised(r), calls |-> r.calls,
     before |-> before, after |-> after]

----------------------------------------------------------------------------
(* get_labeled_wallet, internals.py 53-69 *)

HasKey(m, k) == \E it \in m.d : it[1] = k
Get(m, k) == (CHOOSE it \in m.d : it[1] = k)[2]

\* w.wallet['label']: what indexing the metadata raises, if anything
IndexError(w) ==
    CASE w.wallet.t = "unset" -> "AttributeError"
      [] w.wallet.t = "str" -> "TypeError"
      [] w.wallet.t = "dict" /\ ~HasKey(w.wallet, "label") -> "KeyError"
      [] OTHER -> "none"

\* positions of the list, in order, that the comprehension of line 63 keeps
Matches(ws, requested_label) ==
    {i \in 1..Len(ws) : Get(ws[i].wallet, "label") = requested_label}

Max(S) == CHOOSE x \in S : \A y \in S : y <= x
Min(S) == CHOOSE x \in S : \A y \in S : x <= y

get_labeled_wallet(ws, requested_label) ==
    IF ws = <<>>
    THEN Outcome("get_labeled_wallet", requested_label, "RuntimeError", "no wallet loaded", Unset)
    ELSE LET bad == {i \in 1..Len(ws) : IndexError(ws[i]) # "none"} IN
         IF bad # {}
         THEN Outcome("get_labeled_wallet", requested_label, IndexError(ws[Min(bad)]), "label", Unset)
         ELSE LET target_wallet == Matches(ws, requested_label) IN
              IF target_wallet # {}
              THEN Outcome("get_labeled_wallet", requested_label, "ok", "none",
                           ws[Max(target_wallet)].wallet)
              ELSE Outcome("get_labeled_wallet", requested_label, "TypeError", "not loaded", Unset)

----------------------------------------------------------------------------
(* The application: main.py and the handlers of internals.py *)

Init ==
    /\ app = "init"
    /\ active_service = <<>>
    /\ session_wallets = <<>>
    /\ services = <<>>
    /\ wallets = <<>>
    /\ node_log = <<>>
    /\ req = [r \in Req |-> IdleReq]
    /\ response = NoResponse
    /\ registered = <<>>
    /\ ctor = NoCtor
    /\ pools = <<>>
    /\ last_op = NoOp

\* startup_event, main.py 25-32: a Service is constructed and dropped
startup_event ==
    /\ app = "init"
    /\ app' = "serving"
    /\ services' = NewService("startup")
    /\ UNCHANGED <<active_service, session_wallets, wallets, node_log, req,
                   response, registered, ctor>>
    /\ UNCHANGED <<pools, last_op>>

\* start_node, internals.py 89-95: body is a ServiceParams, a pydantic model
\* and not a mapping, so Service(**body) on line 94 raises TypeError before
\* Service is called: no Service is constructed and nothing is returned. The
\* handler is a plain def, so it runs on a worker thread beside the others
start_node ==
    /\ app = "serving"
    /\ response' = Outcome("start_node", EmptyStr, "TypeError", "none", Unset)
    /\ UNCHANGED <<app, active_service, session_wallets, services, wallets,
                   node_log, req, registered, ctor>>
    /\ UNCHANGED <<pools, last_op>>

\* get_wallet, lines 44-48: take the last session wallet or resolve a proxy
get_wallet_begin(r) ==
    /\ app = "serving"
    /\ ~Active(r)
    /\ LET sw == get_session_wallets IN
       IF sw # <<>>
       THEN req' = [req EXCEPT ![r] = [IdleReq EXCEPT !.pc = "list"]]
       ELSE req' = [req EXCEPT ![r] =
                [IdleReq EXCEPT !.pc = "check",
                                !.svc0 = Len(services),
                                !.reg0 = Len(active_service),
                                !.quiet0 = \A q \in Req \ {r} : ~Pending(q)]]
    /\ UNCHANGED <<app, active_service, session_wallets, services, wallets,
                   node_log, response, registered, ctor>>
    /\ UNCHANGED <<pools, last_op>>

\* _check_for_proxy, lines 29-31: only the outermost call's return statement
\* hands a value to the caller; line 36 drops the value of the inner call
check_for_proxy_lookup(r) ==
    /\ req[r].pc = "check"
    /\ LET _temp == get_active_service IN
       IF Truthy(_temp)
       THEN req' = [req EXCEPT ![r].pc = "wallet",
                               ![r].inner = LatestProxy(_temp),
                               ![r].proxy = IF req[r].depth = 0
                                            THEN LatestProxy(_temp) ELSE None]
       ELSE req' = [req EXCEPT ![r].pc = "construct"]
    /\ UNCHANGED <<app, active_service, session_wallets, services, wallets,
                   node_log, response, registered, ctor>>
    /\ UNCHANGED <<pools, last_op>>

\* lines 33-34: _service = Service(); _proxy = _service.get_proxy()
check_for_proxy_construct(r) ==
    /\ req[r].pc = "construct"
    /\ Len(services) < MaxServices
    /\ services' = NewService("auto")
    /\ req' = [req EXCEPT ![r].pc = "register",
                          ![r].service = Len(services) + 1,
                          ![r].made = req[r].made + 1]
    /\ UNCHANGED <<app, active_service, session_wallets, wallets, node_log,
                   response, registered, ctor>>
    /\ UNCHANGED <<pools, last_op>>

\* lines 35-36: register the pair, then call _check_for_proxy again
check_for_proxy_register(r) ==
    /\ req[r].pc = "register"
    /\ active_service' = update_active_service(active_service, req[r].service,
                                               get_proxy(req[r].service))
    /\ registered' = Append(registered, req[r].service)
    /\ req' = [req EXCEPT ![r].pc = "check", ![r].depth = req[r].depth + 1]
    /\ UNCHANGED <<app, session_wallets, services, wallets, node_log, response,
                   ctor>>
    /\ UNCHANGED <<pools, last_op>>

\* get_wallet, lines 45-50: _wallet is the last session wallet, or
\* Wallet(_proxy, with_address=False) in mode 'r'; then _wallet.list_wallets().
\* The handler returns nothing.
get_wallet_list(r) ==
    /\ req[r].pc \in {"wallet", "list"}
    /\ \E ok \in BOOLEAN :
         LET sw == get_session_wallets
             w == IF req[r].pc = "list"
                  THEN Ran("ok", sw[Len(sw)], <<>>)
                  ELSE Wallet_init(req[r].proxy, ModeR, PyNone, FALSE,
                                   <<>>, TRUE, TRUE, <<>>)
             l == list_wallets(w.value.proxy, ok, <<>>)
         IN  /\ Len(node_log) + Len(l.calls) <= MaxLog
             /\ IF req[r].pc = "list"
                THEN UNCHANGED <<wallets, ctor>>
                ELSE /\ Len(wallets) < MaxWallets
                     /\ wallets' = Append(wallets, w.value)
                     /\ ctor' = Ctor(ModeR, PyNone, FALSE, w)
             /\ node_log' = node_log \o l.calls
             /\ response' = Outcome("get_wallet", EmptyStr, l.status, "none", Unset)
    /\ req' = [req EXCEPT ![r].pc = "done"]
    /\ UNCHANGED <<app, active_service, session_wallets, services, registered>>
    /\ UNCHANGED <<pools, last_op>>

\* post_create_wallet, lines 72-78: Wallet() lacks the required proxy_service,
\* so the call raises before __init__ runs
post_create_wallet ==
    /\ app = "serving"
    /\ response' = Outcome("post_create_wallet", EmptyStr,
                          "TypeError",
                           "missing proxy_service", Unset)
    /\ UNCHANGED <<app, active_service, session_wallets, services, wallets,
                   node_log, req, registered, ctor>>
    /\ UNCHANGED <<pools, last_op>>

Labels == {StrA, StrB, StrC}

\* the handler get_labeled_wallet over the registry's list
get_labeled_wallet_request ==
    /\ app = "serving"
    /\ \E requested_label \in Labels :
         response' = get_labeled_wallet(get_session_wallets, requested_label)
    /\ UNCHANGED <<app, active_service, session_wallets, services, wallets,
                   node_log, req, registered, ctor>>
    /\ UNCHANGED <<pools, last_op>>

\* the steps of one get_wallet request
Step(r) ==
    \/ get_wallet_begin(r)
    \/ check_for_proxy_lookup(r)
    \/ check_for_proxy_construct(r)
    \/ check_for_proxy_register(r)
    \/ get_wallet_list(r)

\* an async def handler without an await runs to its end on the event loop
NoneActive == \A q \in Req : ~Active(q)
Alone(r) == \A q \in Req \ {r} : ~Active(q)

Next ==
    \/ startup_event
    \/ start_node
    \/ \E r \in Req : Alone(r) /\ Step(r)
    \/ NoneActive /\ post_create_wallet
    \/ NoneActive /\ get_labeled_wallet_request

Spec == Init /\ [][Next]_vars

\* the get_wallet handler run on threads instead: the steps of different
\* requests interleave freely
NextRace ==
    \/ startup_event
    \/ \E r \in Req : Step(r)

SpecRace == Init /\ [][NextRace]_vars

----------------------------------------------------------------------------
(* Resolve-active-connection: claims C1-C5 *)

\* the outermost _check_for_proxy call of request r has returned
Resolved(r) == req[r].inner # None

\* C1: every resolve-active-connection call returns a Connection: the most
\* recently registered one when the registry had an entry at the call, the
\* Connection of the Service the call constructed when the registry was
\* empty; never None.
C1_ResolveReturnsConnection ==
    \A r \in Req :
        Resolved(r) =>
            /\ req[r].proxy # None
            /\ req[r].reg0 > 0 => req[r].proxy = active_service[req[r].reg0].proxy
            /\ req[r].reg0 = 0 => req[r].proxy = get_proxy(req[r].service)

\* C2: a resolve call that started on the empty registry and ran alone has
\* left exactly one Service/Connection entry in the registry.
C2_EmptyStartRegistersOne ==
    \A r \in Req :
        (Resolved(r) /\ req[r].reg0 = 0) =>
            /\ Len(active_service) = 1
            /\ req[r].made = 1
            /\ active_service[1].service = req[r].service

C2_Witness ==
    \E r \in Req : Resolved(r) /\ req[r].reg0 = 0 /\ req[r].pc = "wallet"

\* C3: a resolve call that starts when some Service already exists in the
\* process constructs no Service and returns the Connection of a Service
\* that existed when it started.
C3_ExistingServiceReused ==
    \A r \in Req :
        req[r].svc0 > 0 =>
            /\ req[r].made = 0
            /\ Resolved(r) => req[r].proxy \in {get_proxy(s) : s \in 1..req[r].svc0}

\* C4: from the first registration on, every resolve call (the inner call of
\* the registering request and every later call) returns the Connection of
\* the first registered Service; no request in between constructs or
\* registers another.
C4_RepeatedResolveSameConnection ==
    \A r \in Req :
        Resolved(r) =>
            /\ req[r].inner = get_proxy(registered[1])
            /\ req[r].reg0 > 0 => req[r].proxy = get_proxy(registered[1])

\* the registering request's inner call and a later request's call have both
\* returned, and a start-node request was answered after them
C4_Witness ==
    \E r1 \in Req, r2 \in Req :
        /\ Resolved(r1) /\ req[r1].reg0 = 0 /\ req[r1].pc = "done"
        /\ Resolved(r2) /\ req[r2].reg0 > 0 /\ req[r2].pc = "done"
        /\ req[r2].inner = req[r1].inner
        /\ response.op = "start_node"

\* C5: with resolve calls interleaving, every Service handed to the registry
\* is in the registry, in the order of registration, and a resolve call that
\* starts when no registration is pending returns the Connection registered
\* last, which is the one every such call returns from then on.
C5_RaceKeepsAllLastWins ==
    /\ Len(active_service) = Len(registered)
    /\ \A i \in 1..Len(registered) : active_service[i].service = registered[i]
    /\ \A r \in Req :
           (Resolved(r) /\ req[r].reg0 > 0 /\ req[r].quiet0) =>
               /\ req[r].proxy = get_proxy(registered[Len(registered)])
               /\ req[r].proxy = active_service[Len(active_service)].proxy

C5_Witness ==
    /\ Len(registered) = 2
    /\ \E r \in Req :
           Resolved(r) /\ req[r].reg0 = 2 /\ req[r].quiet0 /\ req[r].pc = "done"

----------------------------------------------------------------------------
(* The session wallet list: claim C6 *)

\* C6: every Wallet a request has created is in the session wallet list, so
\* that a later lookup by its label finds it.
C6_CreatedWalletInSession ==
    \A i \in 1..Len(wallets) :
        \E j \in 1..Len(session_wallets) : session_wallets[j] = wallets[i]

----------------------------------------------------------------------------
(* Lookup by label over a populated session list: claims C7, C8 *)

\* the metadata a session wallet can hold: what __init__ stores in the three
\* modes, and a record that carries a label
Labelled(l) == Dict({<<"label", l>>})
SessionMetas ==
    {EmptyDict, Str(<<"x", "1">>),
     Dict({<<"name", StrA>>, <<"warning", EmptyStr>>}),
     Labelled(StrA), Labelled(StrB)}

SessionLists ==
    UNION {[1..n -> {WalletObj(1, m) : m \in SessionMetas}] : n \in 0..MaxSession}

InitLookup ==
    /\ app = "serving"
    /\ active_service = <<>>
    /\ session_wallets \in SessionLists
    /\ services = <<[origin |-> "startup"]>>
    /\ wallets = <<>>
    /\ node_log = <<>>
    /\ req = [r \in Req |-> IdleReq]
    /\ response = NoResponse
    /\ registered = <<>>
    /\ ctor = NoCtor
    /\ pools = <<>>
    /\ last_op = NoOp

NextLookup == get_labeled_wallet_request

SpecLookup == InitLookup /\ [][NextLookup]_vars

\* session wallet i carries label l
Carries(i, l) ==
    /\ session_wallets[i].wallet.t = "dict"
    /\ <<"label", l>> \in session_wallets[i].wallet.d

Carriers(l) == {i \in 1..Len(session_wallets) : Carries(i, l)}

LabelNotFound(o) == o.status = "TypeError" /\ o.msg = "not loaded"
NoWalletsLoaded(o) == o.status = "RuntimeError" /\ o.msg = "no wallet loaded"

\* C7: a lookup returns metadata whose label equals the requested one, and
\* whenever session wallets carry the requested label the lookup returns the
\* metadata of the last of them in the list.
C7_LookupReturnsLatestMatch ==
    response.op = "get_labeled_wallet" =>
        /\ response.status = "ok" => <<"label", response.arg>> \in response.value.d
        /\ Carriers(response.arg) # {} =>
               /\ response.status = "ok"
               /\ response.value = session_wallets[Max(Carriers(response.arg))].wallet

\* C8: a lookup on the empty list fails with no-wallets-loaded, a lookup on a
\* non-empty list without the requested label fails with label-not-found, and
\* neither condition is reported in any other situation.
C8_LookupFailuresDistinct ==
    response.op = "get_labeled_wallet" =>
        /\ session_wallets = <<>> <=> NoWalletsLoaded(response)
        /\ (session_wallets # <<>> /\ Carriers(response.arg) = {})
               <=> LabelNotFound(response)

----------------------------------------------------------------------------
(* Wallet construction against a node: claims C9, C10 *)

Modes == {ModeC, ModeR, ModeL, "x", "C"}
WalletLabels == {PyNone, PyStr(EmptyStr), PyStr(StrAB)}

\* the node's verdict on a call is a choice only where the call is made, and
\* uuid4() is drawn only where a label is generated
Verdicts(called) == IF called THEN BOOLEAN ELSE {TRUE}
Generated(needed) == IF needed THEN UUIDs ELSE {EmptyStr}

\* Wallet(proxy_service, mode, wallet_label, with_address) against a node that
\* accepts or rejects each call
new_wallet ==
    \E p \in {None, 1}, mode \in Modes, wallet_label \in WalletLabels,
       with_address \in BOOLEAN, addr \in Addresses :
      \E uuid \in Generated(mode = ModeC /\ Falsy(wallet_label)),
         ok1 \in Verdicts(mode \in {ModeC, ModeL}),
         ok2 \in Verdicts(mode = ModeC /\ with_address) :
        LET w == Wallet_init(p, mode, wallet_label, with_address, uuid,
                             ok1, ok2, addr) IN
        /\ Len(node_log) + Len(w.calls) <= MaxLog
        /\ Len(wallets) < MaxBuilt
        /\ node_log' = node_log \o w.calls
        /\ wallets' = IF w.status = "ok" THEN Append(wallets, w.value) ELSE wallets
        /\ ctor' = Ctor(mode, wallet_label, with_address, w)
        /\ UNCHANGED <<app, active_service, session_wallets, services, req,
                       response, registered, pools, last_op>>

NextWallet == new_wallet

InitWallet ==
    /\ app = "serving"
    /\ active_service = <<[service |-> 1, proxy |-> get_proxy(1)]>>
    /\ session_wallets = <<>>
    /\ services = <<[origin |-> "auto"]>>
    /\ wallets = <<>>
    /\ node_log = <<>>
    /\ req = [r \in Req |-> IdleReq]
    /\ response = NoResponse
    /\ registered = <<1>>
    /\ ctor = NoCtor
    /\ pools = <<>>
    /\ last_op = NoOp

SpecWallet == InitWallet /\ [][NextWallet]_vars

\* a node response that is not empty
NonEmpty(m) == (m.t = "dict" /\ m.d # {}) \/ (m.t = "str" /\ m.s # EmptyStr)

\* C9: after a construction that succeeded the metadata is what the mode
\* prescribes: reference mode made no call and holds the empty record, load
\* mode holds the reply to its one loadwallet call, create mode holds a
\* non-empty reply: that of getnewaddress when an address was asked for, else
\* that of createwallet.
C9_MetadataMatchesMode ==
    ctor.status = "ok" =>
        LET n == Len(ctor.calls) IN
        /\ ctor.mode \in {ModeC, ModeR, ModeL}
        /\ \A i \in 1..n : ctor.calls[i].ok
        /\ ctor.mode = ModeR => n = 0 /\ ctor.obj.wallet = EmptyDict
        /\ ctor.mode = ModeL =>
               /\ n = 1 /\ ctor.calls[1].verb = "loadwallet"
               /\ ctor.obj.wallet = ctor.calls[1].reply
        /\ ctor.mode = ModeC =>
               /\ NonEmpty(ctor.obj.wallet)
               /\ ctor.calls[1].verb = "createwallet"
               /\ ctor.with_address =>
                      /\ n = 2 /\ ctor.calls[2].verb = "getnewaddress"
                      /\ ctor.obj.wallet = ctor.calls[2].reply
               /\ ~ctor.with_address =>
                      n = 1 /\ ctor.obj.wallet = ctor.calls[1].reply

C9_Witness ==
    /\ ctor.status = "ok" /\ ctor.mode = ModeC /\ ctor.with_address
    /\ ctor.obj.wallet = Str(<<"x", "1">>)
    /\ Len(node_log) = 2

\* C10: a construction with a mode other than 'c', 'l', 'r' raises the
\* unsupported-mode error, has made no RPC call and has stored no metadata.
C10_UnsupportedModeFails ==
    (ctor.mode # "none" /\ ctor.mode \notin {ModeC, ModeR, ModeL}) =>
        /\ ctor.status = "NotImplementedError"
        /\ ctor.calls = <<>>
        /\ ctor.obj.wallet = Unset
        /\ \A i \in 1..Len(wallets) : wallets[i].wallet # Unset

C10_Witness ==
    /\ ctor.mode = "x" /\ ctor.status = "NotImplementedError"
    /\ ctor.with_address /\ ctor.label = PyStr(StrAB)


----------------------------------------------------------------------------
(* Operations on constructed Wallets and Pools: claims C11, C13, C14, C15, C20 *)

MaxOps == 2
MaxPools == 1

\* the arguments a caller passes to each operation
Addr1 == <<"a", "d", "d", "r", "1">>
Ten == <<"1", "0">>
Five == <<"5">>
OpArgs(name) ==
    CASE name = "load_wallet" -> {<<PyStr(StrAB)>>, <<PyStr(EmptyStr)>>}
      [] name = "send_to_address" -> {<<PyStr(Addr1), PyFloat("1.5")>>}
      [] name = "issue_token" -> {<<PyStr(Ten), PyStr(Five)>>,
                                  <<PyFloat("10.0"), PyFloat("5.0")>>}
      [] OTHER -> {<<>>}

\* the Wallet objects a construction that succeeded can leave behind
BuiltWallets ==
    LET runs == {Wallet_init(p, mode, l, wa, u, TRUE, TRUE, x) :
                   p \in {None, 1}, mode \in {ModeC, ModeR, ModeL},
                   l \in WalletLabels, wa \in BOOLEAN, u \in UUIDs,
                   x \in Addresses}
    IN  {r.value : r \in {q \in runs : q.status = "ok"}}

\* the call gets as far as the node
Reaches(p, name, a) ==
    p # None /\ wrapper_executor(VerbOf(name), Supplied(name, a)).raise = "none"

\* one method of Wallet i is called
wallet_operation ==
    \E i \in 1..Len(wallets), name \in WalletOperations, addr \in Addresses :
      \E a \in OpArgs(name) :
        \E ok \in Verdicts(Reaches(wallets[i].proxy, name, a)) :
          LET r == Invoke(name, wallets[i].proxy, a, ok, addr) IN
          /\ Len(node_log) + Len(r.calls) <= MaxOps
          /\ node_log' = node_log \o r.calls
          /\ wallets' = [wallets EXCEPT ![i] = after_operation(name, wallets[i], r)]
          /\ UNCHANGED <<app, active_service, session_wallets, services, req,
                         response, registered, ctor, pools>>
          /\ last_op' = Op(name, wallets[i].proxy, a, r, Shot,
                           [wallets |-> wallets', pools |-> pools',
                            active_service |-> active_service',
                            session_wallets |-> session_wallets'])

\* Pool(input_wallet) over Wallet i
new_pool ==
    /\ Len(pools) < MaxPools
    /\ \E i \in 1..Len(wallets) : pools' = Append(pools, Pool_init(i))
    /\ UNCHANGED <<app, active_service, session_wallets, services, wallets,
                   node_log, req, response, registered, ctor, last_op>>

\* issue_token of Pool k is called
pool_issue_token ==
    \E k \in 1..Len(pools), addr \in Addresses :
      \E a \in OpArgs("issue_token") :
        LET vault == wallets[pools[k].vault_wallet] IN
        \E ok \in Verdicts(Reaches(vault.proxy, "issue_token", a)) :
          LET r == Invoke("issue_token", vault.proxy, a, ok, addr) IN
          /\ Len(node_log) + Len(r.calls) <= MaxOps
          /\ node_log' = node_log \o r.calls
          /\ wallets' = [wallets EXCEPT ![pools[k].vault_wallet] =
                            after_operation("issue_token", vault, r)]
          /\ UNCHANGED <<app, active_service, session_wallets, services, req,
                         response, registered, ctor, pools>>
          /\ last_op' = Op("issue_token", vault.proxy, a, r, Shot,
                           [wallets |-> wallets', pools |-> pools',
                            active_service |-> active_service',
                            session_wallets |-> session_wallets'])

NextOps ==
    \/ wallet_operation
    \/ new_pool
    \/ pool_issue_token

InitOps ==
    /\ app = "serving"
    /\ active_service = <<[service |-> 1, proxy |-> get_proxy(1)]>>
    /\ session_wallets = <<>>
    /\ services = <<[origin |-> "auto"]>>
    /\ wallets \in {<<w>> : w \in BuiltWallets}
    /\ node_log = <<>>
    /\ req = [r \in Req |-> IdleReq]
    /\ response = NoResponse
    /\ registered = <<1>>
    /\ ctor = NoCtor
    /\ pools = <<>>
    /\ last_op = NoOp

SpecOps == InitOps /\ [][NextOps]_vars

\* C11: whenever an operation invokes the executor with a node verb and an
\* ordered argument list, the node receives one call of that verb with exactly
\* that list: same values, same order, nothing split, nothing dropped.
C11_ExecutorForwardsArguments ==
    (last_op.name # "none" /\ last_op.proxy # None) =>
        /\ Len(last_op.calls) = 1
        /\ last_op.calls[1].verb = VerbOf(last_op.name)
        /\ last_op.calls[1].args = Supplied(last_op.name, last_op.given)

\* the number a str or float amount denotes, in tenths
Tenths(x) ==
    CASE x = PyStr(Ten) -> 100
      [] x = PyFloat("10.0") -> 100
      [] x = PyStr(Five) -> 50
      [] x = PyFloat("5.0") -> 50
      [] x = PyFloat("1.5") -> 15
      [] x = PyStr(<<"1">>) -> 10
      [] x = PyStr(<<"0">>) -> 0
      [] OTHER -> -1
Numbers(args) == [i \in 1..Len(args) |-> Tenths(args[i])]

\* the verbs and argument values of a series of calls, as the node sees them
Observed(calls) ==
    [i \in 1..Len(calls) |-> <<calls[i].verb, Numbers(calls[i].args)>>]

\* C13: issuing with amounts given as numeric strings and issuing with the
\* numerically equal floats make the node observe the same call: one
\* issueasset with the same argument values.
C13_IssueStringFloatSame ==
    (last_op.name = "issue_token" /\ last_op.proxy # None) =>
        \A b \in OpArgs("issue_token"), x \in Addresses :
            Numbers(b) = Numbers(last_op.given) =>
                /\ Len(last_op.calls) = 1
                /\ Observed(Invoke("issue_token", last_op.proxy, b, TRUE, x).calls)
                       = Observed(last_op.calls)

\* the node rejected the last call an operation made
Rejected(o) == o.calls # <<>> /\ ~o.calls[Len(o.calls)].ok

\* C14: when the node rejects the call of an operation, the operation fails
\* towards its caller with the node's error code and message; it never comes
\* back as a success and never as another, generic error.
C14_RejectionReachesCaller ==
    last_op.name # "none" =>
        /\ Rejected(last_op) =>
               /\ last_op.status = "RPCError"
               /\ last_op.value = Unset
               /\ last_op.raised = NodeError(VerbOf(last_op.name))
        /\ last_op.status = "ok" =>
               /\ ~Rejected(last_op)
               /\ last_op.raised = NoError

C14_Witness ==
    /\ last_op.name = "send_to_address"
    /\ Rejected(last_op)
    /\ last_op.raised.code = NodeError("sendtoaddress").code
    /\ last_op.raised.code # NodeError("getbalance").code

\* C15: one invocation of an operation issues its verb exactly once, also
\* when the node rejects the call: never twice, never not at all.
C15_NoRetry ==
    last_op.name # "none" =>
        /\ Len(last_op.calls) = 1
        /\ last_op.calls[1].verb = VerbOf(last_op.name)

\* C20: an operation on a Wallet or a Pool leaves every object as it was: the
\* Wallet's connection and metadata, the Pool's owning Wallet, the registry's
\* map of Services and its list of session wallets.
C20_OperationsLeaveObjects ==
    last_op.name # "none" => last_op.after = last_op.before

C20_Witness ==
    /\ last_op.name = "load_wallet"
    /\ last_op.status = "ok"
    /\ pools # <<>>
    /\ \E i \in 1..Len(wallets) :
          /\ wallets[i].wallet # last_op.value
          /\ wallets[i] = last_op.before.wallets[i]

----------------------------------------------------------------------------
(* The end-to-end script of a caller: create a wallet, query its balance,
   send funds; claim C12 *)

SendAddresses == {PyStr(Addr1), PyStr(StrAB)}
Amounts == {PyFloat("1.5"), PyFloat("10.0")}

\* wallet = Wallet(proxy, 'c', wallet_label, with_address)
script_create ==
    /\ ctor = NoCtor
    /\ \E wallet_label \in WalletLabels, with_address \in BOOLEAN,
          addr \in Addresses :
         \E uuid \in Generated(Falsy(wallet_label)), ok1 \in BOOLEAN,
            ok2 \in Verdicts(with_address) :
           LET w == Wallet_init(LatestProxy(active_service), ModeC, wallet_label,
                                with_address, uuid, ok1, ok2, addr) IN
           /\ node_log' = node_log \o w.calls
           /\ wallets' = IF w.status = "ok" THEN Append(wallets, w.value)
                                            ELSE wallets
           /\ ctor' = Ctor(ModeC, wallet_label, with_address, w)
    /\ UNCHANGED <<app, active_service, session_wallets, services, req,
                   response, registered, pools, last_op>>

\* wallet.get_balance(), once the construction has returned
script_get_balance ==
    /\ wallets # <<>>
    /\ last_op = NoOp
    /\ \E ok \in BOOLEAN, addr \in Addresses :
         LET r == get_balance(wallets[1].proxy, ok, addr) IN
         /\ node_log' = node_log \o r.calls
         /\ wallets' = [wallets EXCEPT ![1] = after_operation("get_balance", wallets[1], r)]
         /\ UNCHANGED <<app, active_service, session_wallets, services, req,
                        response, registered, ctor, pools>>
         /\ last_op' = Op("get_balance", wallets[1].proxy, <<>>, r, Shot,
                          [wallets |-> wallets', pools |-> pools',
                           active_service |-> active_service',
                           session_wallets |-> session_wallets'])

\* wallet.send_to_address(address, amount), once get_balance has returned
script_send_to_address ==
    /\ last_op.name = "get_balance"
    /\ last_op.status = "ok"
    /\ \E address \in SendAddresses, amount \in Amounts, ok \in BOOLEAN,
          addr \in Addresses :
         LET r == send_to_address(wallets[1].proxy, address, amount, ok, addr) IN
         /\ node_log' = node_log \o r.calls
         /\ wallets' = [wallets EXCEPT ![1] =
                           after_operation("send_to_address", wallets[1], r)]
         /\ UNCHANGED <<app, active_service, session_wallets, services, req,
                        response, registered, ctor, pools>>
         /\ last_op' = Op("send_to_address", wallets[1].proxy, <<address, amount>>,
                          r, Shot,
                          [wallets |-> wallets', pools |-> pools',
                           active_service |-> active_service',
                           session_wallets |-> session_wallets'])

NextScript ==
    \/ script_create
    \/ script_get_balance
    \/ script_send_to_address

InitScript ==
    /\ app = "serving"
    /\ active_service = <<[service |-> 1, proxy |-> get_proxy(1)]>>
    /\ session_wallets = <<>>
    /\ services = <<[origin |-> "auto"]>>
    /\ wallets = <<>>
    /\ node_log = <<>>
    /\ req = [r \in Req |-> IdleReq]
    /\ response = NoResponse
    /\ registered = <<1>>
    /\ ctor = NoCtor
    /\ pools = <<>>
    /\ last_op = NoOp

SpecScript == InitScript /\ [][NextScript]_vars

Verbs(log) == [i \in 1..Len(log) |-> log[i].verb]

\* C12: a wallet created without a label and with an address, then asked for
\* its balance, then told to send funds: the node has observed exactly
\* createwallet, getnewaddress, getbalance, sendtoaddress, in that order and
\* nothing else, and the label of the createwallet call is a generated UUID
\* string.
C12_ScriptCallsInOrder ==
    (/\ ctor.mode = ModeC
     /\ ctor.label = PyNone
     /\ ctor.with_address
     /\ last_op.name = "send_to_address") =>
        /\ Verbs(node_log) =
               <<"createwallet", "getnewaddress", "getbalance", "sendtoaddress">>
        /\ node_log[1].args # <<>>
        /\ node_log[1].args[1] \in {PyStr(u) : u \in UUIDs}

----------------------------------------------------------------------------
(* Claims C16, C17, C18 *)

\* the node has recorded the wallet a construction asked it to create
NodeRecorded(calls) ==
    \E i \in 1..Len(calls) : calls[i].verb = "createwallet" /\ calls[i].ok

\* C16: a create-mode construction issues getnewaddress only after createwallet
\* has succeeded, and whenever the caller receives an error the node has not
\* recorded the new wallet.
C16_CreateAllOrNothing ==
    ctor.mode = ModeC =>
        /\ \A i \in 1..Len(ctor.calls) :
               ctor.calls[i].verb = "getnewaddress" =>
                   \E j \in 1..(i - 1) :
                       ctor.calls[j].verb = "createwallet" /\ ctor.calls[j].ok
        /\ ctor.status # "ok" => ~NodeRecorded(ctor.calls)

\* C17: on a non-empty session list, whatever metadata its wallets hold, a
\* lookup by label ends with the metadata of a wallet carrying the requested
\* label or with label-not-found, never with another failure.
C17_LookupOnlyFoundOrNotFound ==
    (response.op = "get_labeled_wallet" /\ session_wallets # <<>>) =>
        \/ /\ response.status = "ok"
           /\ \E i \in Carriers(response.arg) :
                  response.value = session_wallets[i].wallet
        \/ LabelNotFound(response)

\* the Services that _check_for_proxy constructed
AutoCreated == {i \in 1..Len(services) : services[i].origin = "auto"}

\* C18: however requests follow one another and interleave, at most one
\* Service of the session was auto-created by _check_for_proxy; all others
\* come from the startup event or a start-node request (which, as the code
\* stands, constructs none).
C18_AtMostOneAutoService ==
    /\ Cardinality(AutoCreated) <= 1
    /\ \A i \in 1..Len(services) :
          services[i].origin \in {"auto", "startup", "start_node"}

C18_Witness ==
    /\ Cardinality(AutoCreated) = 1
    /\ \A r \in Req : req[r].pc = "done"
    /\ \E r \in Req : req[r].made = 1
    /\ \E r \in Req : req[r].made = 0 /\ req[r].reg0 > 0
    /\ \E i \in 1..Len(services) : services[i].origin = "startup"
    /\ Len(services) = 2

----------------------------------------------------------------------------
(* A registry whose registration can fail silently: claim C19 *)

\* lines 35-36 when update_active_service returns without having stored the
\* pair: the registry stays as it was, and _check_for_proxy is called again
check_for_proxy_register_silent(r) ==
    /\ req[r].pc = "register"
    /\ registered' = Append(registered, req[r].service)
    /\ req' = [req EXCEPT ![r].pc = "check", ![r].depth = req[r].depth + 1]
    /\ UNCHANGED <<app, active_service, session_wallets, services, wallets,
                   node_log, response, ctor, pools, last_op>>

NextSilent ==
    \/ startup_event
    \/ start_node
    \/ \E r \in Req : Alone(r) /\ Step(r)
    \/ \E r \in Req : Alone(r) /\ check_for_proxy_register_silent(r)

InitSilent ==
    /\ app = "init"
    /\ active_service = <<>>
    /\ session_wallets = <<>>
    /\ services = <<>>
    /\ wallets = <<>>
    /\ node_log = <<>>
    /\ req = [r \in Req |-> IdleReq]
    /\ response = NoResponse
    /\ registered = <<>>
    /\ ctor = NoCtor
    /\ pools = <<>>
    /\ last_op = NoOp

SpecSilent == InitSilent /\ [][NextSilent]_vars

\* C19: every call of _check_for_proxy looks the registry up at most twice
\* and constructs at most one Service; when the registry is still empty after
\* its registration step the call stops, it does not construct or register
\* again.
C19_ResolveRetriesOnce ==
    \A r \in Req :
        /\ req[r].depth <= 1
        /\ req[r].made <= 1
        /\ req[r].depth >= 1 => req[r].pc \notin {"construct", "register"}

=============================================================================
